---- MODULE Spec2Model ----
(***************************************************************************)
(* Model of scripts/archive/update_categories.py: the textual rewrite of   *)
(* category string literals into CATEGORIES.<tag> references, the import   *)
(* resolver, and the per-file batch driver.                                *)
(*                                                                         *)
(* Text is a sequence of atoms.  An atom is a slice of characters: in file  *)
(* texts every punctuation or white-space character is an atom of its own, *)
(* and a run of letters is cut into the slices named here ("x" \o         *)
(* "protein" is the text xprotein, ".ts" \o "x" the suffix .tsx).  No      *)
(* slice is a concatenation of other slices, every pattern applied to a    *)
(* file text is delimited by punctuation atoms, and every pattern applied  *)
(* to a path is a sequence of whole slices, so a character-level substring *)
(* match of the code is an atom-level subsequence match of the model.  The *)
(* directory names of the root of main are atoms as a whole.               *)
(***************************************************************************)
EXTENDS Naturals, Sequences, FiniteSets, TLC

VARIABLES
    content,      \* update_file: the text being transformed
    original,     \* update_file: the text as read (before the replacements)
    filepath,     \* the path handed to update_file / get_import_statement
    result,       \* the value returned by the function under study
    stage,        \* position of the single-file harness
    order,        \* the order in which the rules of the table are applied
    fs,           \* file id -> the file on disk: path, text, text at the start, faults
    todo,         \* main: files the current rglob loop has not yielded yet
    phase,        \* main: "ts" loop, "tsx" loop, "done", "aborted"
    updated,      \* main: the updated counter
    runNo,        \* number of the current invocation of main
    log           \* what was observed: the I/O on each file, the files the
                  \* current run saw, wrote and counted, the files earlier
                  \* runs wrote, whether an earlier run was interrupted

vars == <<content, original, filepath, result, stage, order,
          fs, todo, phase, updated, runNo, log>>

fileVars == <<content, original, filepath, result, stage, order>>
runVars == <<fs, todo, phase, updated, runNo, log>>

----------------------------------------------------------------------------
(* Atoms *)

Q == "\""
SP == " "
NL == "\n"

Tags == <<"protein", "carbs", "vegetables", "fruits", "dairy", "fats",
          "grains", "legumes", "snacks", "supplements", "others">>

----------------------------------------------------------------------------
(* CATEGORY_REPLACEMENTS: the rule table, in the order of the dict literal *)

\* faulty variant of EqPattern: the closing quote is not part of the pattern
EqPatternLoose(t) == <<"=", "=", "=", SP, Q, t>>

\* r'=== "tag"'
EqPattern(t) == <<"=", "=", "=", SP, Q, t, Q>>

\* '=== CATEGORIES.tag'
EqReplacement(t) == <<"=", "=", "=", SP, "CATEGORIES", ".", t>>

\* r'!== "tag"'
NeqPattern(t) == <<"!", "=", "=", SP, Q, t, Q>>

\* '!== CATEGORIES.tag'
NeqReplacement(t) == <<"!", "=", "=", SP, "CATEGORIES", ".", t>>

\* faulty variant of ParenPattern: the parentheses are not part of the pattern
ParenPatternBare(t) == <<Q, t, Q>>

\* r'\("tag"\)': the escaped parentheses match themselves
ParenPattern(t) == <<"(", Q, t, Q, ")">>

\* '(CATEGORIES.tag)'
ParenReplacement(t) == <<"(", "CATEGORIES", ".", t, ")">>

RECURSIVE ArrayItems(_, _)
\* the elements i..11 of the array literal, separated by ", "
ArrayItems(item, i) ==
    IF i > Len(Tags) THEN <<>>
    ELSE (IF i = 1 THEN <<>> ELSE <<",", SP>>) \o item[i] \o ArrayItems(item, i + 1)

\* r'\["protein", "carbs", ..., "others"\]'
ArrayPattern ==
    <<"[">> \o ArrayItems([i \in 1..Len(Tags) |-> <<Q, Tags[i], Q>>], 1) \o <<"]">>

\* '[CATEGORIES.protein, CATEGORIES.carbs, ..., CATEGORIES.others]'
ArrayReplacement ==
    <<"[">> \o ArrayItems([i \in 1..Len(Tags) |-> <<"CATEGORIES", ".", Tags[i]>>], 1)
            \o <<"]">>

Rule(p, r) == [pattern |-> p, replacement |-> r]

CATEGORY_REPLACEMENTS ==
    [i \in 1..Len(Tags) |-> Rule(EqPattern(Tags[i]), EqReplacement(Tags[i]))]
    \o [i \in 1..Len(Tags) |-> Rule(NeqPattern(Tags[i]), NeqReplacement(Tags[i]))]
    \o <<Rule(ArrayPattern, ArrayReplacement)>>
    \o [i \in 1..Len(Tags) |-> Rule(ParenPattern(Tags[i]), ParenReplacement(Tags[i]))]

NumRules == Len(CATEGORY_REPLACEMENTS)

----------------------------------------------------------------------------
(* re.sub(pattern, replacement, content) for a literal pattern *)

\* the pattern occurs in the text at position i
MatchAt(p, s, i) ==
    /\ i + Len(p) - 1 <= Len(s)
    /\ \A k \in 1..Len(p) : s[i + k - 1] = p[k]

\* every position at which the pattern occurs
Occurrences(p, s) ==
    IF Len(s) < Len(p) THEN {}
    ELSE {i \in 1..(Len(s) - Len(p) + 1) : \A k \in 1..Len(p) : s[i + k - 1] = p[k]}

\* pattern in text
Contains(s, p) == p = <<>> \/ Occurrences(p, s) # {}

\* text.startswith(prefix)
StartsWith(s, p) == p = <<>> \/ MatchAt(p, s, 1)

Min(S) == CHOOSE i \in S : \A j \in S : i <= j

RECURSIVE Matches(_, _, _)
\* the matches re.sub finds: leftmost first, the scan going on behind each match
Matches(occ, n, from) ==
    LET later == {i \in occ : i >= from}
    IN  IF later = {} THEN <<>>
        ELSE <<Min(later)>> \o Matches(occ, n, Min(later) + n)

RECURSIVE Splice(_, _, _, _, _)
\* the text from position `from` on, each match replaced
Splice(s, n, r, ms, from) ==
    IF ms = <<>> THEN SubSeq(s, from, Len(s))
    ELSE SubSeq(s, from, Head(ms) - 1) \o r \o Splice(s, n, r, Tail(ms), Head(ms) + n)

\* faulty variant of Sub: re.sub(p, r, s, count=1)
SubFirstOnly(p, r, s) ==
    LET occ == Occurrences(p, s)
    IN  IF occ = {} THEN s ELSE Splice(s, Len(p), r, <<Min(occ)>>, 1)

\* re.sub(p, r, s) for a literal, non-empty pattern p
Sub(p, r, s) ==
    LET occ == Occurrences(p, s)
    IN  IF occ = {} THEN s ELSE Splice(s, Len(p), r, Matches(occ, Len(p), 1), 1)

RECURSIVE ApplyRules(_, _, _)
\* for pattern, replacement in rules (taken in the order ord): content = re.sub(...)
\* (the assignment of one iteration is evaluated before the next iteration starts)
ApplyRules(rules, ord, s) ==
    IF ord = <<>> THEN s
    ELSE LET t == Sub(rules[Head(ord)].pattern, rules[Head(ord)].replacement, s)
         IN  IF Len(t) >= 0 THEN ApplyRules(rules, Tail(ord), t) ELSE t

TableOrder == [i \in 1..NumRules |-> i]

\* update_file, lines 94-96: the replacement loop
Rewrite(s) == ApplyRules(CATEGORY_REPLACEMENTS, TableOrder, s)

----------------------------------------------------------------------------
(* Paths.  A path is the text of its segments joined by the separator *)

SEP == "/"

RECURSIVE Split(_, _)
\* text.split(sep): the pieces between the separators
Split(s, sep) ==
    LET at == {i \in 1..Len(s) : s[i] = sep}
    IN  IF at = {} THEN <<s>>
        ELSE <<SubSeq(s, 1, Min(at) - 1)>> \o Split(SubSeq(s, Min(at) + 1, Len(s)), sep)

RECURSIVE Join(_, _)
\* sep.join(pieces)
Join(pieces, sep) ==
    IF pieces = <<>> THEN <<>>
    ELSE IF Len(pieces) = 1 THEN pieces[1]
    ELSE pieces[1] \o <<sep>> \o Join(Tail(pieces), sep)

\* Path(filepath).parts, for a path without empty or dot segments
Parts(path) == Split(path, SEP)

\* 'name' in parts: a whole segment equals the name
InParts(name, parts) == \E i \in 1..Len(parts) : parts[i] = <<name>>

\* the rest of the module path of the import, the same in the three statements
ImportTail == <<"core", SEP, "constants", SEP, "categories", Q, ";", NL>>

\* 'import { CATEGORIES }'
CanonicalImport == <<"import", SP, "{", SP, "CATEGORIES", SP, "}">>

\* 'import { CATEGORIES } from "../core/constants/categories";\n'
IMPORT_STATEMENT ==
    CanonicalImport \o <<SP, "from", SP, Q, "..", SEP>> \o ImportTail

\* 'import { CATEGORIES } from "../../core/constants/categories";\n'
IMPORT_STATEMENT_NESTED ==
    CanonicalImport \o <<SP, "from", SP, Q, "..", SEP, "..", SEP>> \o ImportTail

\* 'import { CATEGORIES } from "../../../core/constants/categories";\n'
IMPORT_STATEMENT_DEEP ==
    CanonicalImport \o <<SP, "from", SP, Q, "..", SEP, "..", SEP, "..", SEP>> \o ImportTail

\* faulty variant of get_import_statement: components and pages are tested first
get_import_statement_pages_first(path) ==
    LET parts == Parts(path)
    IN  IF InParts("components", parts) \/ InParts("pages", parts)
        THEN IMPORT_STATEMENT_DEEP
        ELSE IF \/ InParts("tests", parts) \/ InParts("logic", parts)
                \/ InParts("utils", parts) \/ InParts("export", parts)
                \/ InParts("premium", parts) \/ InParts("storage", parts)
        THEN IMPORT_STATEMENT_NESTED
        ELSE IMPORT_STATEMENT

\* the if / elif chain of lines 63-70
get_import_statement(path) ==
    LET parts == Parts(path)
    IN  IF InParts("tests", parts)
        THEN IMPORT_STATEMENT_NESTED
        ELSE IF \/ InParts("logic", parts) \/ InParts("utils", parts)
                \/ InParts("export", parts) \/ InParts("premium", parts)
                \/ InParts("storage", parts)
        THEN IMPORT_STATEMENT_NESTED
        ELSE IF InParts("components", parts) \/ InParts("pages", parts)
        THEN IMPORT_STATEMENT_DEEP
        ELSE IMPORT_STATEMENT

Whitespace == {SP, NL, "\t"}

RECURSIVE RStrip(_)
\* text.rstrip()
RStrip(s) ==
    IF s # <<>> /\ s[Len(s)] \in Whitespace THEN RStrip(SubSeq(s, 1, Len(s) - 1)) ELSE s

\* lines.insert(i, x)
Insert(lines, i, x) == SubSeq(lines, 1, i - 1) \o <<x>> \o SubSeq(lines, i, Len(lines))

\* the indexes of the lines that start with 'import '
ImportLines(lines) == {i \in 1..Len(lines) : StartsWith(lines[i], <<"import", SP>>)}

\* faulty variant of add_import_if_needed: no test for the import being there
add_import_always(text, path) ==
    IF Contains(text, <<"CATEGORIES">>)
    THEN LET import_stmt == get_import_statement(path)
             lines == Split(text, NL)
         IN  IF ImportLines(lines) # {}
             THEN Join(Insert(lines, Min(ImportLines(lines)) + 1, RStrip(import_stmt)), NL)
             ELSE import_stmt \o text
    ELSE text

\* faulty variant of add_import_if_needed: lines.insert(i, ...)
add_import_before_first(text, path) ==
    IF Contains(text, <<"CATEGORIES">>) /\ ~Contains(text, CanonicalImport)
    THEN LET import_stmt == get_import_statement(path)
             lines == Split(text, NL)
         IN  IF ImportLines(lines) # {}
             THEN Join(Insert(lines, Min(ImportLines(lines)), RStrip(import_stmt)), NL)
             ELSE import_stmt \o text
    ELSE text

\* the loop of lines 78-81 returns at the first line that starts with
\* 'import ': lines.insert(i + 1, ...) puts the statement behind that line
add_import_if_needed(text, path) ==
    IF Contains(text, <<"CATEGORIES">>) /\ ~Contains(text, CanonicalImport)
    THEN LET import_stmt == get_import_statement(path)
             lines == Split(text, NL)
         IN  IF ImportLines(lines) # {}
             THEN Join(Insert(lines, Min(ImportLines(lines)) + 1, RStrip(import_stmt)), NL)
             ELSE import_stmt \o text
    ELSE text

----------------------------------------------------------------------------
(* Inputs of the rewrite engine *)

MaxFrags == 3

\* pieces the input texts are assembled from: the delimiters of the rules,
\* quoted tags, quoted literals that only contain a tag, rewritten text
Frags ==
    { <<"=", "=", "=", SP>>,
      <<"!", "=", "=", SP>>,
      <<"=">>,
      <<"!">>,
      <<"(">>,
      <<")">>,
      <<Q, "protein", Q>>,
      <<Q, "others", Q>>,
      <<Q, "fruits", "_extra", Q>>,
      <<Q, "x", "protein", Q>>,
      <<"CATEGORIES", ".", "protein">>,
      ArrayPattern }

RECURSIVE Texts(_, _)
\* the concatenations of at most n pieces
Texts(frags, n) ==
    IF n = 0 THEN {<<>>}
    ELSE LET T == Texts(frags, n - 1) IN T \cup {t \o f : t \in T, f \in frags}

RewriteInputs == Texts(Frags, MaxFrags)

RunIdle ==
    /\ fs = <<>>
    /\ todo = {}
    /\ phase = "idle"
    /\ updated = 0
    /\ runNo = 0
    /\ log = <<>>

InitRewrite ==
    /\ content \in RewriteInputs
    /\ original = content
    /\ filepath = <<>>
    /\ result = FALSE
    /\ stage = 0
    /\ order = TableOrder
    /\ RunIdle

\* update_file, lines 92-99, on a text already in memory: one pass of the
\* replacement loop and the test content != original
RewritePass ==
    /\ stage < 2
    /\ original' = content
    /\ content' = ApplyRules(CATEGORY_REPLACEMENTS, order, content)
    /\ result' = (content' # content)
    /\ stage' = stage + 1
    /\ UNCHANGED <<filepath, order, runVars>>

NextRewrite == RewritePass

SpecRewrite == InitRewrite /\ [][NextRewrite]_vars

Count(p, s) == Cardinality(Occurrences(p, s))

\* C1: a second pass of the rule table over the output of a first pass
\* changes nothing (changed = false)
RewriteIdempotent == stage = 2 => (result = FALSE /\ content = original)

\* a second pass has run over a text the first pass had rewritten
RewriteIdempotentReached ==
    /\ stage = 2
    /\ Contains(content, EqReplacement("others"))

\* quoted literals that contain a tag without being one
EmbeddedLiterals == { <<Q, "fruits", "_extra", Q>>, <<Q, "x", "protein", Q>> }

\* C5: a quoted literal that only contains a tag name as a proper substring
\* survives the rewrite wherever it stands, and the text changes only if
\* it holds the full pattern of some rule
ContextBounded ==
    stage = 1 =>
        /\ \A lit \in EmbeddedLiterals : Count(lit, content) = Count(lit, original)
        /\ result = TRUE =>
              \E i \in 1..NumRules : Contains(original, CATEGORY_REPLACEMENTS[i].pattern)

\* the pass ran over "=== " and "(" directly followed by such literals, next
\* to a full match that was rewritten
ContextBoundedReached ==
    /\ stage = 1
    /\ result = TRUE
    /\ \/ Contains(original, <<"=", "=", "=", SP, Q, "fruits", "_extra", Q>>)
       \/ Contains(original, <<"(", Q, "x", "protein", Q, ")">>)
    /\ \E lit \in EmbeddedLiterals : Contains(content, lit)

----------------------------------------------------------------------------
(* The rules applied in another order than the table's *)

MaxOrderFrags == 2

OrderFrags ==
    { EqPattern("protein"),
      NeqPattern("protein"),
      ParenPattern("protein"),
      ParenPattern("others"),
      ArrayPattern,
      <<Q, "protein", Q>>,
      <<"=">>,
      <<"!">>,
      <<"(">> }

OrderInputs == Texts(OrderFrags, MaxOrderFrags)

Reverse(s) == [i \in 1..Len(s) |-> s[Len(s) + 1 - i]]

\* the four blocks of the table: ===, !==, the array, the parenthesised argument
RuleGroups ==
    << [i \in 1..Len(Tags) |-> i],
       [i \in 1..Len(Tags) |-> Len(Tags) + i],
       << 2 * Len(Tags) + 1 >>,
       [i \in 1..Len(Tags) |-> 2 * Len(Tags) + 1 + i] >>

\* the blocks in every order, and the whole table backwards: any two rules
\* come in both relative orders
Orders ==
    { RuleGroups[f[1]] \o RuleGroups[f[2]] \o RuleGroups[f[3]] \o RuleGroups[f[4]] :
        f \in Permutations(1..4) }
    \cup {Reverse(TableOrder)}

InitOrder ==
    /\ content \in OrderInputs
    /\ original = content
    /\ filepath = <<>>
    /\ result = FALSE
    /\ stage = 0
    /\ order = TableOrder
    /\ RunIdle

\* the replacement loop of update_file, iterating the table in the order o
RewriteInOrder ==
    /\ stage = 0
    /\ \E o \in Orders :
         /\ order' = o
         /\ content' = ApplyRules(CATEGORY_REPLACEMENTS, o, content)
    /\ original' = content
    /\ result' = (content' # content)
    /\ stage' = 1
    /\ UNCHANGED <<filepath, runVars>>

NextOrder == RewriteInOrder

SpecOrder == InitOrder /\ [][NextOrder]_vars

RuleOccurrences(s) ==
    [i \in 1..NumRules |-> Occurrences(CATEGORY_REPLACEMENTS[i].pattern, s)]

\* no two rules match overlapping text of s
NoOverlap(s) ==
    LET occ == RuleOccurrences(s)
        len(i) == Len(CATEGORY_REPLACEMENTS[i].pattern)
    IN  \A i, j \in 1..NumRules :
            i < j => \A a \in occ[i], b \in occ[j] : a + len(i) <= b \/ b + len(j) <= a

\* the replacement of a rule, joined to the text around it, gives no other
\* rule a match it did not have
NoCreatedMatch(s) ==
    LET occ == RuleOccurrences(s)
    IN  \A i \in 1..NumRules :
            occ[i] # {} =>
                LET t == Sub(CATEGORY_REPLACEMENTS[i].pattern,
                             CATEGORY_REPLACEMENTS[i].replacement, s)
                IN  \A j \in 1..NumRules \ {i} :
                        Count(CATEGORY_REPLACEMENTS[j].pattern, t) = Cardinality(occ[j])

\* C10: no two rules match overlapping text, no rule matches text another
\* rule produced, and the rules applied in another order give the output of
\* the table order
RulesExclusive ==
    /\ stage = 0 => NoOverlap(content) /\ NoCreatedMatch(content)
    /\ stage = 1 => content = Rewrite(original)

\* a text matched by rules of two blocks was rewritten in an order that is
\* not the table's
RulesExclusiveReached ==
    /\ stage = 1
    /\ order # TableOrder
    /\ Contains(original, EqPattern("protein"))
    /\ Contains(original, ParenPattern("others"))
    /\ content # original

----------------------------------------------------------------------------
(* get_import_statement over paths below the root of main *)

MaxDepth == 2

\* root of main (line 110)
RootPath ==
    <<"c:", SEP, "Users", SEP, "Ana Victoria", SEP, "Desktop", SEP,
      "SmartMarket Planner", SEP, "src">>

\* directory names: the eight names the code looks for, one in another case,
\* one that contains a name, one unrelated
DirSegs ==
    { <<"tests">>, <<"logic">>, <<"utils">>, <<"export">>, <<"premium">>,
      <<"storage">>, <<"components">>, <<"pages">>,
      <<"Tests">>, <<"my", "tests">>, <<"core">> }

FileNames == { <<"a", ".ts">>, <<"tests", ".ts", "x">> }

RECURSIVE Dirs(_)
Dirs(n) ==
    IF n = 0 THEN {RootPath}
    ELSE LET D == Dirs(n - 1) IN D \cup {d \o <<SEP>> \o seg : d \in D, seg \in DirSegs}

PathInputs == {d \o <<SEP>> \o f : d \in Dirs(MaxDepth), f \in FileNames}

InitPath ==
    /\ filepath \in PathInputs
    /\ content = <<>>
    /\ original = <<>>
    /\ result = <<>>
    /\ stage = 0
    /\ order = TableOrder
    /\ RunIdle

\* a call of get_import_statement(filepath)
ResolveImport ==
    /\ stage = 0
    /\ result' = get_import_statement(filepath)
    /\ stage' = 1
    /\ UNCHANGED <<content, original, filepath, order, runVars>>

NextPath == ResolveImport

SpecPath == InitPath /\ [][NextPath]_vars

NestedFamily == {"tests", "logic", "utils", "export", "premium", "storage"}

DeepFamily == {"components", "pages"}

\* the names of the two families that are whole segments of the path
QualifyingSegments(path) ==
    {name \in NestedFamily \cup DeepFamily :
        <<name>> \in {Parts(path)[i] : i \in 1..Len(Parts(path))}}

\* C4: the import variant depends only on which family names are whole
\* segments of the path: a name of the tests family gives the two-levels-up
\* import even beside components or pages, else components or pages give
\* the three-levels-up import, else the one-level-up import
PathClassified ==
    stage = 1 =>
        LET q == QualifyingSegments(filepath)
        IN  result = IF q \cap NestedFamily # {} THEN IMPORT_STATEMENT_NESTED
                     ELSE IF q \cap DeepFamily # {} THEN IMPORT_STATEMENT_DEEP
                     ELSE IMPORT_STATEMENT

\* a path with segments of both families was resolved
PathClassifiedReached ==
    /\ stage = 1
    /\ "pages" \in QualifyingSegments(filepath)
    /\ "storage" \in QualifyingSegments(filepath)
    /\ result = IMPORT_STATEMENT_NESTED

----------------------------------------------------------------------------
(* add_import_if_needed behind the replacement loop, on one text *)

MaxLines == 3

\* lines the input texts are assembled from
LineFrags ==
    { <<"import", SP, "a", ";", NL>>,
      <<"import", SP, "b", ";", NL>>,
      IMPORT_STATEMENT_NESTED,
      <<"import", SP, "{", "CATEGORIES", "}", ";", NL>>,
      <<SP, "import", SP, "c", ";", NL>>,
      <<"import", "ant", ";", NL>>,
      <<"const", SP, "y", ";", NL>>,
      <<"y", SP>> \o EqPattern("protein") \o <<NL>>,
      <<"y", SP>> \o EqReplacement("fats") }

ImportInputs == Texts(LineFrags, MaxLines)

ImportPaths ==
    { RootPath \o <<SEP, "a", ".ts">>,
      RootPath \o <<SEP, "tests", SEP, "a", ".ts">>,
      RootPath \o <<SEP, "components", SEP, "a", ".ts", "x">> }

InitImport ==
    /\ content \in ImportInputs
    /\ original = content
    /\ filepath \in ImportPaths
    /\ result = FALSE
    /\ stage = 0
    /\ order = TableOrder
    /\ RunIdle

\* update_file, lines 92-99: the replacement loop and content != original
ReplaceLiterals ==
    /\ stage = 0
    /\ original' = content
    /\ content' = Rewrite(content)
    /\ result' = (content' # content)
    /\ stage' = 1
    /\ UNCHANGED <<filepath, order, runVars>>

\* a call content = add_import_if_needed(content, filepath); original keeps
\* the argument of the call
EnsureImport ==
    /\ stage \in {1, 2}
    /\ original' = content
    /\ content' = add_import_if_needed(content, filepath)
    /\ stage' = stage + 1
    /\ UNCHANGED <<filepath, result, order, runVars>>

NextImport == ReplaceLiterals \/ EnsureImport

SpecImport == InitImport /\ [][NextImport]_vars

\* C2: add_import_if_needed returns a text that holds the canonical import
\* spelling unchanged, and a second call returns the result of the first
ImportIdempotent ==
    /\ (stage \in {2, 3} /\ Contains(original, CanonicalImport)) => content = original
    /\ stage = 3 => content = original
    /\ stage \in {2, 3} => Contains(content, CanonicalImport) \/ content = original

\* a second call has followed a call that inserted the import behind an
\* import line of a rewritten text (the inputs hold no three-levels-up import)
ImportIdempotentReached ==
    /\ stage = 3
    /\ result = TRUE
    /\ Contains(content, RStrip(IMPORT_STATEMENT_DEEP))
    /\ Cardinality(ImportLines(Split(content, NL))) > 1

\* Scenario D: a literal was rewritten in a text that holds the canonical
\* import, and the call has returned it with that one import
ScenarioDReached ==
    /\ stage = 2
    /\ result = TRUE
    /\ Contains(original, IMPORT_STATEMENT_NESTED)
    /\ Count(CanonicalImport, content) = 1

\* the call add_import_if_needed(original, filepath) = content put the import
\* statement behind line number at(...) of the import lines, or on top
InsertedBehind(at(_)) ==
    LET lines == Split(original, NL)
        stmt == get_import_statement(filepath)
    IN  IF ImportLines(lines) = {}
        THEN content = stmt \o original
        ELSE Split(content, NL) =
                SubSeq(lines, 1, at(ImportLines(lines)))
                \o <<RStrip(stmt)>>
                \o SubSeq(lines, at(ImportLines(lines)) + 1, Len(lines))

Max(S) == CHOOSE i \in S : \A j \in S : j <= i

\* the rewrite changed a text without the canonical import, and the call of
\* add_import_if_needed on it has returned
ImportInsertedCase ==
    /\ stage = 2
    /\ result = TRUE
    /\ ~Contains(original, CanonicalImport)

\* C3 as stated: the import statement is inserted directly after the last
\* import line, or at the very top if there is none
ImportAfterLast == ImportInsertedCase => InsertedBehind(Max)

\* C3 amended: the import statement is inserted directly after the first
\* line that starts with 'import ', or at the very top if there is none
ImportAfterFirst == ImportInsertedCase => InsertedBehind(Min)

\* the import was inserted into a text with several import lines
ImportAfterFirstReached ==
    /\ ImportInsertedCase
    /\ Cardinality(ImportLines(Split(original, NL))) >= 2
    /\ Count(CanonicalImport, content) = 1

----------------------------------------------------------------------------
(* main: the batch over the files below the root *)

NFiles == 2
MaxRuns == 2

\* faulty variant of should_skip_file: whole directory names instead of substrings
should_skip_file_by_segment(path) ==
    \E name \in {"node_modules", ".git", "dist", "build"} : InParts(name, Parts(path))

\* any(pattern in str(filepath) for pattern in skip_patterns)
should_skip_file(path) ==
    \E pattern \in { <<"node_modules">>, <<".git">>, <<"dist">>, <<"build">>,
                     <<"categories", ".ts">> } :
        Contains(path, pattern)

EndsWith(s, suffix) ==
    Len(s) >= Len(suffix) /\ SubSeq(s, Len(s) - Len(suffix) + 1, Len(s)) = suffix

\* the glob of each loop of main: '*.ts', then '*.tsx'
Glob(ph) == IF ph = "ts" THEN <<".ts">> ELSE <<".ts", "x">>

\* faulty variant of update_file: no test content != original
update_file_always_writes(path, disk, io) ==
    IF io = "read_error"
    THEN [disk |-> disk, ret |-> FALSE, opened |-> FALSE, imported |-> FALSE,
          raised |-> TRUE]
    ELSE [disk |-> add_import_if_needed(Rewrite(disk), path), ret |-> TRUE,
          opened |-> TRUE, imported |-> TRUE, raised |-> FALSE]

\* faulty variant of update_file: the except clause returns True
update_file_true_on_error(path, disk, io) ==
    IF io = "read_error"
    THEN [disk |-> disk, ret |-> TRUE, opened |-> FALSE, imported |-> FALSE,
          raised |-> TRUE]
    ELSE LET changed == Rewrite(disk) # disk
         IN  [disk |-> IF ~changed \/ io = "open_error" THEN disk
                       ELSE IF io = "write_error" THEN <<>>
                       ELSE add_import_if_needed(Rewrite(disk), path),
              ret |-> changed, opened |-> changed, imported |-> changed,
              raised |-> changed /\ io # "ok"]

\* update_file(filepath) on a file whose text on disk is `disk`: the text it
\* leaves on disk, the value it returns, whether it opened the file for
\* writing, whether it called add_import_if_needed, whether the except
\* clause ran.  io is what the call meets: "ok", "read_error" (line 89 or 90
\* raises), "open_error" (line 102 raises), "write_error" (line 103 raises).
\* open(filepath, 'w') truncates the file, so a write that raises leaves it
\* empty; an open that raises leaves it as it was
update_file(path, disk, io) ==
    IF io = "read_error"
    THEN [disk |-> disk, ret |-> FALSE, opened |-> FALSE, imported |-> FALSE,
          raised |-> TRUE]
    ELSE LET original_ == disk
             replaced == Rewrite(original_)
         IN  IF replaced # original_
             THEN LET withImport == add_import_if_needed(replaced, path)
                  IN  IF io = "open_error"
                      THEN [disk |-> disk, ret |-> FALSE, opened |-> TRUE,
                            imported |-> TRUE, raised |-> TRUE]
                      ELSE IF io = "write_error"
                      THEN [disk |-> <<>>, ret |-> FALSE, opened |-> TRUE,
                            imported |-> TRUE, raised |-> TRUE]
                      ELSE [disk |-> withImport, ret |-> TRUE, opened |-> TRUE,
                            imported |-> TRUE, raised |-> FALSE]
             ELSE [disk |-> disk, ret |-> FALSE, opened |-> FALSE,
                   imported |-> FALSE, raised |-> FALSE]

\* file texts: with literals behind two import lines, with the canonical
\* import and two literals, with a reference and no literal, with neither
TextLiteral ==
    <<"import", SP, "a", ";", NL, "import", SP, "b", ";", NL, "y", SP>>
        \o EqPattern("protein") \o <<NL>>

TextScenarioD ==
    IMPORT_STATEMENT_NESTED \o ParenPattern("others") \o ParenPattern("others")

TextReference == <<"y", SP>> \o EqReplacement("fats") \o <<NL>>

TextClean == <<"const", SP, "y", ";", NL>>

File(dirs, name, text, faults) ==
    [path |-> RootPath \o dirs \o <<SEP>> \o name, text |-> text, first |-> text,
     faults |-> faults]

\* the files a tree below the root is populated from: three lie under an
\* exclusion pattern, one is on a medium whose reads and writes can fail
Candidates ==
    { File(<<>>, <<"a", ".ts">>, TextLiteral, {}),
      File(<<SEP, "pages">>, <<"b", ".ts", "x">>, TextScenarioD, {}),
      File(<<>>, <<"d", ".ts">>, TextClean, {}),
      File(<<SEP, "logic">>, <<"e", ".ts", "x">>, TextReference, {}),
      File(<<SEP, "utils">>, <<"dist", "ance", ".ts">>, TextLiteral, {}),
      File(<<SEP, "build">>, <<"c", ".ts", "x">>, TextScenarioD, {}),
      File(<<SEP, "core">>, <<"categories", ".ts">>, ArrayPattern, {}),
      File(<<SEP, "tests">>, <<"f", ".ts">>, TextLiteral,
           {"read_error", "open_error", "write_error"}) }

FileIds == 1..NFiles

RECURSIVE Ascending(_)
\* the ids of S in ascending order: the order in which a glob yields them
Ascending(S) == IF S = {} THEN <<>> ELSE <<Min(S)>> \o Ascending(S \ {Min(S)})

\* root.rglob(glob)
Rglob(files, ph) == Ascending({f \in DOMAIN files : EndsWith(files[f].path, Glob(ph))})

\* per file, over all runs: was it read, opened for writing, handed to
\* add_import_if_needed, and did a call on it raise
NoIo == [read |-> FALSE, opened |-> FALSE, imported |-> FALSE, raised |-> FALSE]

\* the observations of a run that starts
FreshLog(old, aborted) ==
    [io |-> old.io, seen |-> {}, written |-> {}, counted |-> {}, failed |-> {},
     interrupted |-> old.interrupted \/ aborted,
     rewritten |-> old.rewritten \cup old.written]

Init ==
    /\ fs \in [FileIds -> Candidates]
    /\ \A f, g \in FileIds : f # g => fs[f].path # fs[g].path
    /\ phase = "ts"
    /\ todo = Rglob(fs, "ts")
    /\ updated = 0
    /\ runNo = 1
    /\ log = [io |-> [f \in FileIds |-> NoIo], seen |-> {}, written |-> {},
              counted |-> {}, failed |-> {}, interrupted |-> FALSE, rewritten |-> {}]
    /\ content = <<>>
    /\ original = <<>>
    /\ filepath = <<>>
    /\ result = FALSE
    /\ stage = 0
    /\ order = TableOrder

Looping == phase \in {"ts", "tsx"} /\ todo # <<>>

\* if should_skip_file(filepath): continue
SkipFile ==
    /\ Looping
    /\ should_skip_file(fs[Head(todo)].path)
    /\ todo' = Tail(todo)
    /\ UNCHANGED <<fs, phase, updated, runNo, log, fileVars>>

\* if update_file(filepath): updated += 1, where the call has the outcome r
Account(f, r) ==
    /\ fs' = [fs EXCEPT ![f].text = r.disk]
    /\ updated' = IF r.ret THEN updated + 1 ELSE updated
    /\ log' = [log EXCEPT
                 !.io[f] = [read |-> TRUE,
                            opened |-> @.opened \/ r.opened,
                            imported |-> @.imported \/ r.imported,
                            raised |-> @.raised \/ r.raised],
                 !.seen = @ \cup {f},
                 !.written = IF r.opened /\ ~r.raised THEN @ \cup {f} ELSE @,
                 !.counted = IF r.ret THEN @ \cup {f} ELSE @,
                 !.failed = IF r.raised THEN @ \cup {f} ELSE @]
    /\ todo' = Tail(todo)
    /\ UNCHANGED <<phase, runNo, fileVars>>

\* the next file of the loop is not skipped and update_file meets no error
UpdateFileOk ==
    /\ Looping
    /\ ~should_skip_file(fs[Head(todo)].path)
    /\ \E r \in {update_file(fs[Head(todo)].path, fs[Head(todo)].text, "ok")} :
         Account(Head(todo), r)

\* open(filepath, 'r') or f.read() raises
UpdateFileReadError ==
    /\ Looping
    /\ "read_error" \in fs[Head(todo)].faults
    /\ ~should_skip_file(fs[Head(todo)].path)
    /\ \E r \in {update_file(fs[Head(todo)].path, fs[Head(todo)].text, "read_error")} :
         Account(Head(todo), r)

\* open(filepath, 'w') raises (it is reached only by a text that changed)
UpdateFileOpenError ==
    /\ Looping
    /\ "open_error" \in fs[Head(todo)].faults
    /\ ~should_skip_file(fs[Head(todo)].path)
    /\ \E r \in {update_file(fs[Head(todo)].path, fs[Head(todo)].text, "open_error")} :
         r.raised /\ Account(Head(todo), r)

\* f.write(content) raises (it is reached only by a text that changed)
UpdateFileWriteError ==
    /\ Looping
    /\ "write_error" \in fs[Head(todo)].faults
    /\ ~should_skip_file(fs[Head(todo)].path)
    /\ \E r \in {update_file(fs[Head(todo)].path, fs[Head(todo)].text, "write_error")} :
         r.raised /\ Account(Head(todo), r)

\* the '*.ts' loop is exhausted: the '*.tsx' loop starts
NextGlob ==
    /\ phase = "ts"
    /\ todo = <<>>
    /\ phase' = "tsx"
    /\ todo' = Rglob(fs, "tsx")
    /\ UNCHANGED <<fs, updated, runNo, log, fileVars>>

\* the '*.tsx' loop is exhausted: main prints the count and returns
Finish ==
    /\ phase = "tsx"
    /\ todo = <<>>
    /\ phase' = "done"
    /\ UNCHANGED <<fs, todo, updated, runNo, log, fileVars>>

\* the process is interrupted between two files
Abort ==
    /\ phase \in {"ts", "tsx"}
    /\ phase' = "aborted"
    /\ UNCHANGED <<fs, todo, updated, runNo, log, fileVars>>

\* the script is started again
Rerun ==
    /\ phase \in {"done", "aborted"}
    /\ runNo < MaxRuns
    /\ runNo' = runNo + 1
    /\ phase' = "ts"
    /\ todo' = Rglob(fs, "ts")
    /\ updated' = 0
    /\ log' = FreshLog(log, phase = "aborted")
    /\ UNCHANGED <<fs, fileVars>>

Next ==
    \/ SkipFile
    \/ UpdateFileOk
    \/ UpdateFileReadError
    \/ UpdateFileOpenError
    \/ UpdateFileWriteError
    \/ NextGlob
    \/ Finish
    \/ Abort
    \/ Rerun

Spec == Init /\ [][Next]_vars

\* the text holds a match of some rule of the table
HasPattern(text) ==
    \E i \in 1..NumRules : Contains(text, CATEGORY_REPLACEMENTS[i].pattern)

\* no run has changed, opened for writing or counted the file, nor handed
\* its text to add_import_if_needed
Untouched(f) ==
    /\ fs[f].text = fs[f].first
    /\ ~log.io[f].opened
    /\ ~log.io[f].imported
    /\ f \notin log.written \cup log.counted \cup log.rewritten

\* C6: a file whose text holds none of the target patterns is left as it
\* was: not changed, not handed to add_import_if_needed, not written, not counted
CleanFileUntouched == \A f \in FileIds : Untouched(f) \/ HasPattern(fs[f].first)

\* a finished run has read a file that names CATEGORIES but holds no
\* pattern, and has updated another file
CleanFileUntouchedReached ==
    /\ phase = "done"
    /\ updated > 0
    /\ \E f \in FileIds :
         /\ log.io[f].read
         /\ Contains(fs[f].first, <<"CATEGORIES">>)
         /\ ~Contains(fs[f].first, CanonicalImport)
         /\ ~HasPattern(fs[f].first)

\* the path holds one of the exclusion patterns as a substring
MatchesExclusion(path) ==
    \/ Contains(path, <<"node_modules">>)
    \/ Contains(path, <<".git">>)
    \/ Contains(path, <<"dist">>)
    \/ Contains(path, <<"build">>)
    \/ Contains(path, <<"categories", ".ts">>)

\* C7: a file whose path matches an exclusion pattern is never read, never
\* written and never counted, whatever its text
ExcludedNeverTouched ==
    /\ \A f \in FileIds :
         MatchesExclusion(fs[f].path) =>
            /\ Untouched(f)
            /\ ~log.io[f].read
            /\ ~log.io[f].raised
            /\ f \notin log.seen
    /\ updated <= Cardinality({f \in FileIds : ~MatchesExclusion(fs[f].path)})

\* a finished run has passed an excluded file whose text holds literals, and
\* has updated another file
ExcludedNeverTouchedReached ==
    /\ phase = "done"
    /\ updated > 0
    /\ \E f \in FileIds :
         /\ MatchesExclusion(fs[f].path)
         /\ ~InParts("dist", Parts(fs[f].path))
         /\ HasPattern(fs[f].text)

\* C8: an error on one file is confined to it: a run that finishes has
\* called update_file on every file that is not excluded, and its count is
\* the number of files it changed and wrote; a file whose call raised is
\* never counted
FailureConfined ==
    /\ updated = Cardinality(log.counted)
    /\ log.counted = log.written
    /\ log.counted \cap log.failed = {}
    /\ phase = "done" =>
          log.seen = {f \in FileIds : ~MatchesExclusion(fs[f].path)}

\* a finished run met an error on a '*.ts' file and then updated a '*.tsx' file
FailureConfinedReached ==
    /\ phase = "done"
    /\ \E f \in log.failed, g \in log.counted :
         /\ EndsWith(fs[f].path, <<".ts">>)
         /\ EndsWith(fs[g].path, <<".ts", "x">>)

\* the text one uninterrupted run without I/O error leaves in the file
SingleRun(file) ==
    IF MatchesExclusion(file.path) \/ Rewrite(file.first) = file.first
    THEN file.first
    ELSE add_import_if_needed(Rewrite(file.first), file.path)

\* C9: when a run after earlier (interrupted) runs finishes, every file no
\* call on which raised holds the text of a single uninterrupted run, and a
\* file an earlier run has written is not written again
RerunSafe ==
    (phase = "done" /\ runNo > 1) =>
        \A f \in FileIds :
            ~log.io[f].raised =>
                /\ f \notin log.written \cap log.rewritten
                /\ fs[f].text = SingleRun(fs[f])

\* a first run wrote a file and was interrupted, and the second run wrote
\* another file and finished
RerunSafeReached ==
    /\ phase = "done"
    /\ runNo = 2
    /\ log.interrupted
    /\ log.rewritten # {}
    /\ log.written # {}
    /\ \A f \in FileIds : ~log.io[f].raised

====
